---------------------------- MODULE Spec2Model ----------------------------
(***************************************************************************)
(* eth-rpc-check: the sequential test orchestrator (rpc.rs), the two       *)
(* request paths it dispatches to (HTTP and WebSocket), the concurrent     *)
(* orchestrator (rpc.rs, test_all_methods_concurrent) and the statistics   *)
(* aggregation (stats.rs).                                                 *)
(*                                                                         *)
(* Specifications                                                          *)
(*   - Spec, FairSpec: main's run of the sequential orchestrator;          *)
(*   - ConcSpec: a run of the concurrent orchestrator, one step per await  *)
(*     of its futures;                                                     *)
(*   - StatsSpec: calculate_stats on any short list of results;            *)
(*   - GroupSpec: calculate_stats on one group of up to MaxGroup results.  *)
(*                                                                         *)
(* Conventions of the model                                                *)
(*   - an Option<String> is a sequence of strings: << >> is None,          *)
(*     <<s>> is Some(s); a formatted message is the sequence of its parts; *)
(*   - a latency is a whole number of milliseconds; a quotient of two      *)
(*     numbers (success rate, average, median of an even group) is the     *)
(*     exact fraction [num, den] in lowest terms, compared by cross        *)
(*     multiplication, which orders the values as f64 orders them;         *)
(*   - a String is compared as Rust compares it, byte by byte, on the      *)
(*     byte sequence NameBytes gives;                                      *)
(*   - (len as f64 * 0.95) as usize is (len * 95) \div 100: the f64        *)
(*     product rounds to the exact value where that is a whole number, for *)
(*     every len the program admits (count 1 .. 100);                      *)
(*   - RpcResult.timestamp is left out: nothing reads it.                  *)
(***************************************************************************)
EXTENDS Integers, Sequences, FiniteSets, TLC

(* ------------------------------ bounds --------------------------------- *)
MaxChains == 2
MaxMethods == 3
MaxCount == 2
MaxAttempts == 4
MaxResults == 3
MaxGroup == 24

(* Latencies a recorded result can carry, in milliseconds. *)
Latencies == {10, 20, 30}

(* What start.elapsed() reads during a run of the orchestrator: the value  *)
(* decides no branch of it.                                                *)
Elapsed == {20}

(* ------------------------------ chains.rs ------------------------------ *)
Http == "Http"
WebSocket == "WebSocket"
ConnectionType == {Http, WebSocket}

(* A URL is its scheme and the rest; starts_with("ws://") / ("wss://") is  *)
(* a test on the scheme.                                                   *)
Url(scheme, rest) == [scheme |-> scheme, rest |-> rest]

ChainNew(name, rpc_url) ==
    [name |-> name,
     rpc_url |-> rpc_url,
     connection_type |-> IF rpc_url.scheme \in {"ws", "wss"} THEN WebSocket ELSE Http]

(* The chains main builds; the two WebSocket chains may be given the same  *)
(* address.                                                                *)
ChainPool ==
    { ChainNew("ETH-HTTP", Url("https", "eth.example")),
      ChainNew("ETH-WS", Url("wss", "node.example")),
      ChainNew("BSC-WS", Url("wss", "node.example")) }

Addresses == {c.rpc_url : c \in ChainPool}

(* ------------------------------ methods.rs ----------------------------- *)
Catalog == <<"web3_clientVersion", "web3_sha3", "net_version", "net_listening">>

(* ------------------------------ rpc.rs: data --------------------------- *)
None == << >>
Some(s) == <<s>>

RpcResult(chain, endpoint, method, success, latency_ms, error) ==
    [chain |-> chain, endpoint |-> endpoint, method |-> method,
     success |-> success, latency_ms |-> latency_ms, error |-> error]

(* What one request function returns: Ok((success, latency, error, body))  *)
(* or Err(e).                                                              *)
NoOutcome ==
    [kind |-> "None", success |-> FALSE, latency_ms |-> 0, error |-> None, body |-> << >>,
     e |-> ""]
OkOutcome(success, latency_ms, error, body) ==
    [kind |-> "Ok", success |-> success, latency_ms |-> latency_ms, error |-> error,
     body |-> <<body>>, e |-> ""]
ErrOutcome(e) ==
    [kind |-> "Err", success |-> FALSE, latency_ms |-> 0, error |-> None, body |-> << >>,
     e |-> e]

(* The JSON bodies a peer can answer with, by what the code reads of them: *)
(* whether a top-level "error" is present and whether it has a string      *)
(* "message".                                                              *)
Bodies ==
    { [has_error |-> FALSE, message |-> None],
      [has_error |-> TRUE, message |-> Some("execution reverted")],
      [has_error |-> TRUE, message |-> None] }

(* ClassifyBody taking every parsed body for a success. *)
ClassifyBody_AlwaysSuccess(body, latency_ms) == OkOutcome(TRUE, latency_ms, None, body)

(* success = body.get("error").is_none(); error = error.message as str.    *)
ClassifyBody(body, latency_ms) ==
    LET success == ~body.has_error
        error == IF ~success THEN body.message ELSE None
    IN  OkOutcome(success, latency_ms, error, body)

ErrHttpSend == "send HTTP RPC request failed"
ErrHttpParse == "parse HTTP RPC response failed"
ErrWsConnect == "connect WebSocket failed"
ErrWsSend == "send WebSocket message failed"
ErrWsResponse == "WebSocket response error"
ErrWsClosed == "WebSocket connection closed"
ErrWsTimeout == "WebSocket request timeout (15s)"
ErrWsNonText == "received non-text WebSocket response"
ErrWsJson == "parse WebSocket response JSON failed"

VARIABLES
    chains,            \* test_all_methods: chains
    methods,           \* test_all_methods: methods (their names)
    count_per_method,  \* test_all_methods: count_per_method
    pc,                \* where the run is
    chain_idx,         \* index of the chain under test (1-based)
    i,                 \* index of the method under test (1-based; the code's i + 1)
    attempt,           \* the code's attempt (0-based)
    method_results,    \* results of the method under test
    error_occurred,    \* a dispatcher error was seen for the method under test
    all_results,       \* results of the run
    ret,               \* what test_all_methods returned
    latency,           \* elapsed time measured by the request in flight
    outcome,           \* what test_method's request returned
    ws_live,           \* WebSocket streams that exist (connected, not dropped)
    connects,          \* per address: connections established so far
    close_frames,      \* close frames the program tried to send so far
    calls,             \* invocations of test_method so far
    throttled,         \* a throttle sleep happened since the last invocation
    stats,             \* what calculate_stats returned
    tasks              \* test_all_methods_concurrent: the per-method futures of the chain under test

vars == <<chains, methods, count_per_method, pc, chain_idx, i, attempt,
          method_results, error_occurred, all_results, ret, latency, outcome,
          ws_live, connects, close_frames, calls, throttled, stats, tasks>>

inputs == <<chains, methods, count_per_method>>
loopVars == <<chain_idx, i, attempt, method_results, error_occurred, all_results, ret>>
wsVars == <<ws_live, connects, close_frames>>

Chain == chains[chain_idx]
Method == methods[i]

(* Sequences of distinct chains, as main builds them. *)
ChainLists ==
    { s \in UNION { [1..n -> ChainPool] : n \in 1..MaxChains } :
        \A a, b \in DOMAIN s : a # b => s[a] # s[b] }

Init ==
    /\ chains \in ChainLists
    /\ \E m \in 1..MaxMethods : methods = SubSeq(Catalog, 1, m)
    /\ count_per_method \in 1..MaxCount
    /\ Len(chains) * Len(methods) * count_per_method <= MaxAttempts
    /\ pc = "chains"
    /\ chain_idx = 1
    /\ i = 1
    /\ attempt = 0
    /\ method_results = << >>
    /\ error_occurred = FALSE
    /\ all_results = << >>
    /\ ret = "none"
    /\ latency = 0
    /\ outcome = NoOutcome
    /\ ws_live = 0
    /\ connects = [a \in Addresses |-> 0]
    /\ close_frames = 0
    /\ calls = 0
    /\ throttled = TRUE
    /\ stats = << >>
    /\ tasks = << >>


(* ------------------------- rpc.rs: test_all_methods -------------------- *)
SuccessCount(results) == Cardinality({k \in DOMAIN results : results[k].success})

(* The outcome recorded for a dispatcher error (the Err arm of the match). *)
ErrResult(chain, method, e) ==
    RpcResult(chain.name, chain.rpc_url, method, FALSE, 0, <<"test failed: ", e>>)

(* The outcome recorded for a dispatcher result (test_method's Ok value). *)
OkResult(chain, method, o) ==
    RpcResult(chain.name, chain.rpc_url, method, o.success, o.latency_ms, o.error)

(* BreakAfterErr without the test on the connection type. *)
BreakAfterErr_AnyTransport(att, connection_type) == att = 0

(* BreakAfterErr without the break: every attempt is issued. *)
BreakAfterErr_Never(att, connection_type) == FALSE

(* The break inside the Err arm. *)
BreakAfterErr(att, connection_type) ==
    att = 0 /\ connection_type = WebSocket

(* SkipRemainingMethods without the test on the method index. *)
SkipRemainingMethods_AnyMethod(idx, success_count, connection_type) ==
    success_count = 0 /\ connection_type = WebSocket

(* The break after a method's attempts; idx is the method's 1-based index. *)
SkipRemainingMethods(idx, success_count, connection_type) ==
    idx = 1 /\ success_count = 0 /\ connection_type = WebSocket

(* for (chain_idx, chain) in chains.iter().enumerate() *)
BeginChain ==
    /\ pc = "chains"
    /\ chain_idx <= Len(chains)
    /\ i' = 1
    /\ pc' = "methods"
    /\ UNCHANGED <<inputs, chain_idx, attempt, method_results, error_occurred,
                   all_results, ret, latency, outcome, wsVars, calls, throttled, stats, tasks>>

(* Ok(all_results) *)
Return ==
    /\ pc = "chains"
    /\ chain_idx > Len(chains)
    /\ ret' = "Ok"
    /\ pc' = "returned"
    /\ UNCHANGED <<inputs, chain_idx, i, attempt, method_results, error_occurred,
                   all_results, latency, outcome, wsVars, calls, throttled, stats, tasks>>

(* for (i, method) in methods.iter().enumerate(): the locals of one method *)
BeginMethod ==
    /\ pc = "methods"
    /\ i <= Len(methods)
    /\ method_results' = << >>
    /\ error_occurred' = FALSE
    /\ attempt' = 0
    /\ pc' = "attempts"
    /\ UNCHANGED <<inputs, chain_idx, i, all_results, ret, latency, outcome,
                   wsVars, calls, throttled, stats, tasks>>

(* the method loop is exhausted: on to the next chain *)
EndChain ==
    /\ pc = "methods"
    /\ i > Len(methods)
    /\ chain_idx' = chain_idx + 1
    /\ pc' = "chains"
    /\ UNCHANGED <<inputs, i, attempt, method_results, error_occurred, all_results,
                   ret, latency, outcome, wsVars, calls, throttled, stats, tasks>>

(* for attempt in 0..count_per_method: test_method(&client, chain, method), *)
(* which matches on chain.connection_type                                   *)
CallTestMethod ==
    /\ pc = "attempts"
    /\ attempt < count_per_method
    /\ calls' = calls + 1
    /\ throttled' = FALSE
    /\ latency' = 0
    /\ pc' = IF Chain.connection_type = Http THEN "http_send" ELSE "ws_connect"
    /\ UNCHANGED <<inputs, loopVars, outcome, wsVars, stats, tasks>>

AttemptsDone ==
    /\ pc = "attempts"
    /\ attempt >= count_per_method
    /\ pc' = "method_end"
    /\ UNCHANGED <<inputs, loopVars, latency, outcome, wsVars, calls, throttled, stats, tasks>>

(* ----------------------- rpc.rs: send_http_rpc_request ----------------- *)
Finish(o) ==
    /\ outcome' = o
    /\ pc' = "match"

(* client.post(..).timeout(10s).send() answered; latency = start.elapsed() *)
HttpSendOk ==
    /\ pc = "http_send"
    /\ \E l \in Elapsed : latency' = l
    /\ pc' = "http_body"
    /\ UNCHANGED <<inputs, loopVars, outcome, wsVars, calls, throttled, stats, tasks>>

(* .send() failed *)
HttpSendErr ==
    /\ pc = "http_send"
    /\ Finish(ErrOutcome(ErrHttpSend))
    /\ UNCHANGED <<inputs, loopVars, latency, wsVars, calls, throttled, stats, tasks>>

(* response.json() gave a body *)
HttpBody ==
    /\ pc = "http_body"
    /\ \E body \in Bodies : Finish(ClassifyBody(body, latency))
    /\ UNCHANGED <<inputs, loopVars, latency, wsVars, calls, throttled, stats, tasks>>

(* response.json() failed *)
HttpBodyErr ==
    /\ pc = "http_body"
    /\ Finish(ErrOutcome(ErrHttpParse))
    /\ UNCHANGED <<inputs, loopVars, latency, wsVars, calls, throttled, stats, tasks>>

(* The request's timeout (10 s, from connecting until the body is read)    *)
(* elapses: the pending await fails.                                       *)
HttpTimeout ==
    /\ pc \in {"http_send", "http_body"}
    /\ Finish(ErrOutcome(IF pc = "http_send" THEN ErrHttpSend ELSE ErrHttpParse))
    /\ UNCHANGED <<inputs, loopVars, latency, wsVars, calls, throttled, stats, tasks>>

(* ------------------------ rpc.rs: send_ws_rpc_request ------------------ *)
(* ws_stream goes out of scope when the function returns. *)
DropStream == ws_live' = ws_live - 1

(* WsConnectOk with a connection kept per address and reused: only the    *)
(* first request to an address counts as an establishment.                 *)
WsConnectOk_Reuse ==
    /\ pc = "ws_connect"
    /\ ws_live' = ws_live + 1
    /\ connects' = [connects EXCEPT ![Chain.rpc_url] = IF @ = 0 THEN 1 ELSE @]
    /\ pc' = "ws_send"
    /\ UNCHANGED <<inputs, loopVars, latency, outcome, close_frames, calls, throttled, stats, tasks>>

(* connect_async(url) completed the handshake *)
WsConnectOk ==
    /\ pc = "ws_connect"
    /\ ws_live' = ws_live + 1
    /\ connects' = [connects EXCEPT ![Chain.rpc_url] = @ + 1]
    /\ pc' = "ws_send"
    /\ UNCHANGED <<inputs, loopVars, latency, outcome, close_frames, calls, throttled, stats, tasks>>

(* connect_async(url) failed *)
WsConnectErr ==
    /\ pc = "ws_connect"
    /\ Finish(ErrOutcome(ErrWsConnect))
    /\ UNCHANGED <<inputs, loopVars, latency, wsVars, calls, throttled, stats, tasks>>

(* ws_stream.send(request_message) completed; the 15 s timer is created *)
WsSendOk ==
    /\ pc = "ws_send"
    /\ pc' = "ws_wait"
    /\ UNCHANGED <<inputs, loopVars, latency, outcome, wsVars, calls, throttled, stats, tasks>>

(* ws_stream.send(request_message) failed *)
WsSendErr ==
    /\ pc = "ws_send"
    /\ Finish(ErrOutcome(ErrWsSend))
    /\ DropStream
    /\ UNCHANGED <<inputs, loopVars, latency, connects, close_frames, calls, throttled, stats, tasks>>

(* Either::Left((Some(Ok(Message::Text(text))))) with text a JSON body *)
WsRecvText ==
    /\ pc = "ws_wait"
    /\ \E l \in Elapsed, body \in Bodies :
         /\ latency' = l
         /\ outcome' = ClassifyBody(body, l)
    /\ pc' = "ws_close"
    /\ UNCHANGED <<inputs, loopVars, wsVars, calls, throttled, stats, tasks>>

(* a text frame that serde_json cannot parse *)
WsRecvBadJson ==
    /\ pc = "ws_wait"
    /\ Finish(ErrOutcome(ErrWsJson))
    /\ DropStream
    /\ UNCHANGED <<inputs, loopVars, latency, connects, close_frames, calls, throttled, stats, tasks>>

(* a frame that is not Message::Text *)
WsRecvNonText ==
    /\ pc = "ws_wait"
    /\ Finish(ErrOutcome(ErrWsNonText))
    /\ DropStream
    /\ UNCHANGED <<inputs, loopVars, latency, connects, close_frames, calls, throttled, stats, tasks>>

(* Either::Left((Some(Err(e)))) *)
WsRecvError ==
    /\ pc = "ws_wait"
    /\ Finish(ErrOutcome(ErrWsResponse))
    /\ DropStream
    /\ UNCHANGED <<inputs, loopVars, latency, connects, close_frames, calls, throttled, stats, tasks>>

(* Either::Left((None)) *)
WsStreamClosed ==
    /\ pc = "ws_wait"
    /\ Finish(ErrOutcome(ErrWsClosed))
    /\ DropStream
    /\ UNCHANGED <<inputs, loopVars, latency, connects, close_frames, calls, throttled, stats, tasks>>

(* Either::Right: the 15 s sleep won the select *)
WsTimeout ==
    /\ pc = "ws_wait"
    /\ Finish(ErrOutcome(ErrWsTimeout))
    /\ DropStream
    /\ UNCHANGED <<inputs, loopVars, latency, connects, close_frames, calls, throttled, stats, tasks>>

(* ws_stream.send(Message::Close(None)): its result is only printed; then  *)
(* Ok((success, latency, error, response_body)) and the stream is dropped  *)
WsClose ==
    /\ pc = "ws_close"
    /\ \E sent \in BOOLEAN : close_frames' = close_frames + 1
    /\ DropStream
    /\ pc' = "match"
    /\ UNCHANGED <<inputs, loopVars, latency, outcome, connects, calls, throttled, stats, tasks>>

(* -------------------- rpc.rs: test_all_methods, the match -------------- *)
(* Ok(result) => method_results.push(result) *)
RecordOk ==
    /\ pc = "match"
    /\ outcome.kind = "Ok"
    /\ method_results' = Append(method_results, OkResult(Chain, Method, outcome))
    /\ outcome' = NoOutcome
    /\ pc' = "sleep"
    /\ UNCHANGED <<inputs, chain_idx, i, attempt, error_occurred, all_results, ret,
                   latency, wsVars, calls, throttled, stats, tasks>>

(* RecordErr with the error propagated (test_method(..).await?) instead of *)
(* recorded.                                                               *)
RecordErr_Propagate ==
    /\ pc = "match"
    /\ outcome.kind = "Err"
    /\ ret' = "Err"
    /\ outcome' = NoOutcome
    /\ pc' = "returned"
    /\ UNCHANGED <<inputs, chain_idx, i, attempt, method_results, error_occurred,
                   all_results, latency, wsVars, calls, throttled, stats, tasks>>

(* Err(e) => record the failure; break on the first attempt of a WebSocket *)
(* chain                                                                   *)
RecordErr ==
    /\ pc = "match"
    /\ outcome.kind = "Err"
    /\ error_occurred' = TRUE
    /\ method_results' = Append(method_results, ErrResult(Chain, Method, outcome.e))
    /\ outcome' = NoOutcome
    /\ pc' = IF BreakAfterErr(attempt, Chain.connection_type) THEN "method_end" ELSE "sleep"
    /\ UNCHANGED <<inputs, chain_idx, i, attempt, all_results, ret,
                   latency, wsVars, calls, throttled, stats, tasks>>

(* tokio::time::sleep(100 ms), then the next attempt *)
Sleep ==
    /\ pc = "sleep"
    /\ throttled' = TRUE
    /\ attempt' = attempt + 1
    /\ pc' = "attempts"
    /\ UNCHANGED <<inputs, chain_idx, i, method_results, error_occurred, all_results,
                   ret, latency, outcome, wsVars, calls, stats, tasks>>

(* EndMethod putting the method's results in front of the earlier ones. *)
EndMethod_Prepend ==
    /\ pc = "method_end"
    /\ all_results' = method_results \o all_results
    /\ method_results' = << >>
    /\ IF SkipRemainingMethods(i, SuccessCount(method_results), Chain.connection_type)
         THEN /\ chain_idx' = chain_idx + 1
              /\ pc' = "chains"
              /\ i' = i
         ELSE /\ i' = i + 1
              /\ pc' = "methods"
              /\ chain_idx' = chain_idx
    /\ UNCHANGED <<inputs, attempt, error_occurred, ret, latency, outcome,
                   wsVars, calls, throttled, stats, tasks>>

(* all_results.extend(method_results); break out of the method loop when   *)
(* the first method of a WebSocket chain had no success                    *)
EndMethod ==
    /\ pc = "method_end"
    /\ all_results' = all_results \o method_results
    /\ method_results' = << >>
    /\ IF SkipRemainingMethods(i, SuccessCount(method_results), Chain.connection_type)
         THEN /\ chain_idx' = chain_idx + 1
              /\ pc' = "chains"
              /\ i' = i
         ELSE /\ i' = i + 1
              /\ pc' = "methods"
              /\ chain_idx' = chain_idx
    /\ UNCHANGED <<inputs, attempt, error_occurred, ret, latency, outcome,
                   wsVars, calls, throttled, stats, tasks>>


(* ------------------------------ numbers -------------------------------- *)
RECURSIVE GCD(_, _)
GCD(a, b) == IF b = 0 THEN a ELSE GCD(b, a % b)

(* The quotient n / d (n >= 0, d > 0) in lowest terms. *)
Frac(n, d) ==
    LET g == GCD(n, d) IN [num |-> n \div g, den |-> d \div g]

FracLess(x, y) == x.num * y.den < y.num * x.den

(* f64::partial_cmp on two quotients (never NaN here). *)
FracCmp(x, y) ==
    IF FracLess(x, y) THEN "Less" ELSE IF FracLess(y, x) THEN "Greater" ELSE "Equal"

(* The bytes of the chain names, for String::cmp. *)
NameBytes(name) ==
    CASE name = "ETH-HTTP" -> <<69, 84, 72, 45, 72, 84, 84, 80>>
      [] name = "ETH-WS"   -> <<69, 84, 72, 45, 87, 83>>
      [] name = "BSC-WS"   -> <<66, 83, 67, 45, 87, 83>>
      [] name = "BSC-HTTP" -> <<66, 83, 67, 45, 72, 84, 84, 80>>

RECURSIVE BytesCmp(_, _)
BytesCmp(a, b) ==
    IF a = << >> /\ b = << >> THEN "Equal"
    ELSE IF a = << >> THEN "Less"
    ELSE IF b = << >> THEN "Greater"
    ELSE IF Head(a) < Head(b) THEN "Less"
    ELSE IF Head(a) > Head(b) THEN "Greater"
    ELSE BytesCmp(Tail(a), Tail(b))

(* String::cmp *)
StrCmp(a, b) == BytesCmp(NameBytes(a), NameBytes(b))

(* Ordering::then_with *)
ThenWith(first, second) == IF first = "Equal" THEN second ELSE first

(* ------------------------- stats.rs: calculate_stats ------------------- *)
KeyOf(r) == <<r.chain, r.endpoint, r.method>>

(* The keys of stats_map. *)
GroupKeys(results) == {KeyOf(results[k]) : k \in DOMAIN results}

(* stats_map[key]: the results of the key, in input order. *)
RECURSIVE GroupOf(_, _)
GroupOf(results, key) ==
    IF results = << >> THEN << >>
    ELSE IF KeyOf(Head(results)) = key
         THEN <<Head(results)>> \o GroupOf(Tail(results), key)
         ELSE GroupOf(Tail(results), key)

(* group_results.iter().filter(|r| r.success) *)
RECURSIVE SuccessResults(_)
SuccessResults(group) ==
    IF group = << >> THEN << >>
    ELSE IF Head(group).success
         THEN <<Head(group)>> \o SuccessResults(Tail(group))
         ELSE SuccessResults(Tail(group))

(* success_results.iter().map(|r| r.latency_ms) *)
LatenciesOf(success_results) ==
    [k \in DOMAIN success_results |-> success_results[k].latency_ms]

RECURSIVE SeqSum(_)
SeqSum(s) == IF s = << >> THEN 0 ELSE Head(s) + SeqSum(Tail(s))

RECURSIVE SeqMin(_)
SeqMin(s) ==
    IF Len(s) = 1 THEN s[1]
    ELSE LET m == SeqMin(Tail(s)) IN IF Head(s) <= m THEN Head(s) ELSE m

RECURSIVE SeqMax(_)
SeqMax(s) ==
    IF Len(s) = 1 THEN s[1]
    ELSE LET m == SeqMax(Tail(s)) IN IF Head(s) > m THEN Head(s) ELSE m

(* Insert x into the ascending sequence s, after the elements equal to it. *)
RECURSIVE InsertAsc(_, _)
InsertAsc(s, x) ==
    IF s = << >> THEN <<x>>
    ELSE IF x < Head(s) THEN <<x>> \o s
    ELSE <<Head(s)>> \o InsertAsc(Tail(s), x)

(* SortAsc with the sort left out. *)
SortAsc_Unsorted(s) == s

(* sorted_latencies.sort_by(|a, b| a.partial_cmp(b).unwrap()) *)
RECURSIVE SortAsc(_)
SortAsc(s) ==
    IF s = << >> THEN << >>
    ELSE InsertAsc(SortAsc(SubSeq(s, 1, Len(s) - 1)), s[Len(s)])

(* median_latency; the sequence is indexed from 1, the code's from 0. *)
Median(sorted_latencies) ==
    LET n == Len(sorted_latencies) IN
    IF n = 0 THEN Frac(0, 1)
    ELSE IF n % 2 = 0
         THEN LET mid == n \div 2
              IN  Frac(sorted_latencies[mid] + sorted_latencies[mid + 1], 2)
         ELSE Frac(sorted_latencies[(n \div 2) + 1], 1)

(* P95Index rounding to the nearest index instead of truncating. *)
P95Index_Rounded(n) == (n * 95 + 50) \div 100

(* p95_index = (len as f64 * 0.95) as usize *)
P95Index(n) == (n * 95) \div 100

(* p95_latency *)
P95(sorted_latencies) ==
    LET n == Len(sorted_latencies)
        p95_index == P95Index(n)
    IN  IF n = 0 \/ p95_index >= n
          THEN IF n > 0 THEN Frac(sorted_latencies[n], 1) ELSE Frac(0, 1)
          ELSE Frac(sorted_latencies[p95_index + 1], 1)

(* GroupLatencies without the filter on success. *)
GroupLatencies_Unfiltered(group_results) == LatenciesOf(group_results)

(* The latencies the latency fields are computed from. *)
GroupLatencies(group_results) == LatenciesOf(SuccessResults(group_results))

(* SuccessRate with the division done on the integers, before the cast. *)
SuccessRate_IntegerDivision(success_count, call_count) ==
    Frac(success_count \div call_count, 1)

(* success_count as f64 / call_count as f64 *)
SuccessRate(success_count, call_count) == Frac(success_count, call_count)

(* The closure of the map: one MethodStats from one group. *)
MethodStats(key, group_results) ==
    LET call_count == Len(group_results)
        latencies == GroupLatencies(group_results)
        success_count == Len(SuccessResults(group_results))
        success_rate == SuccessRate(success_count, call_count)
        sorted_latencies == SortAsc(latencies)
    IN  IF success_count = 0
          THEN [chain |-> key[1], endpoint |-> key[2], method |-> key[3],
                call_count |-> call_count, success_count |-> success_count,
                min_latency |-> Frac(0, 1), max_latency |-> Frac(0, 1),
                avg_latency |-> Frac(0, 1), median_latency |-> Frac(0, 1),
                p95_latency |-> Frac(0, 1), success_rate |-> success_rate]
          ELSE [chain |-> key[1], endpoint |-> key[2], method |-> key[3],
                call_count |-> call_count, success_count |-> success_count,
                min_latency |-> Frac(SeqMin(latencies), 1),
                max_latency |-> Frac(SeqMax(latencies), 1),
                avg_latency |-> Frac(SeqSum(latencies), Len(latencies)),
                median_latency |-> Median(sorted_latencies),
                p95_latency |-> P95(sorted_latencies),
                success_rate |-> success_rate]

(* StatsCmp with the success rates compared a to b: ascending. *)
StatsCmp_RateAscending(a, b) ==
    ThenWith(StrCmp(a.chain, b.chain),
             ThenWith(FracCmp(a.success_rate, b.success_rate),
                      FracCmp(a.avg_latency, b.avg_latency)))

(* The comparator of sorted_by: chain ascending, then success rate         *)
(* descending, then average latency ascending.                             *)
StatsCmp(a, b) ==
    ThenWith(StrCmp(a.chain, b.chain),
             ThenWith(FracCmp(b.success_rate, a.success_rate),
                      FracCmp(a.avg_latency, b.avg_latency)))

(* Insert x after the elements that do not compare Greater than it. *)
RECURSIVE InsertBy(_, _)
InsertBy(s, x) ==
    IF s = << >> THEN <<x>>
    ELSE IF StatsCmp(x, Head(s)) = "Less" THEN <<x>> \o s
    ELSE <<Head(s)>> \o InsertBy(Tail(s), x)

(* Itertools::sorted_by: a stable sort. *)
RECURSIVE SortedBy(_)
SortedBy(s) ==
    IF s = << >> THEN << >>
    ELSE InsertBy(SortedBy(SubSeq(s, 1, Len(s) - 1)), s[Len(s)])

(* The orders in which a HashMap can hand out its keys. *)
RECURSIVE IterationOrders(_)
IterationOrders(keys) ==
    IF keys = {} THEN {<< >>}
    ELSE UNION { {<<k>> \o rest : rest \in IterationOrders(keys \ {k})} : k \in keys }

(* MappedGroups with the groups that have no success left out. *)
MappedGroups_OmitFailed(results, order) ==
    SelectSeq([k \in DOMAIN order |-> MethodStats(order[k], GroupOf(results, order[k]))],
              LAMBDA st : st.success_count > 0)

(* The groups that reach the sort, in the order the map hands them out. *)
MappedGroups(results, order) ==
    [k \in DOMAIN order |-> MethodStats(order[k], GroupOf(results, order[k]))]

(* calculate_stats(results): one result per iteration order of the map. *)
calculate_stats(results) ==
    { SortedBy(MappedGroups(results, order)) : order \in IterationOrders(GroupKeys(results)) }

(* ------------------------------ main.rs -------------------------------- *)
(* let stats = stats::calculate_stats(&results); *)
MainCalculateStats ==
    /\ pc = "returned"
    /\ ret = "Ok"
    /\ stats' \in calculate_stats(all_results)
    /\ pc' = "done"
    /\ UNCHANGED <<inputs, loopVars, latency, outcome, wsVars, calls, throttled, tasks>>

(* Steps the program takes on its own. *)
ProgramStep ==
    \/ BeginChain
    \/ Return
    \/ BeginMethod
    \/ EndChain
    \/ CallTestMethod
    \/ AttemptsDone
    \/ RecordOk
    \/ RecordErr
    \/ Sleep
    \/ EndMethod
    \/ MainCalculateStats

(* Timers the program armed. *)
TimerStep ==
    \/ HttpTimeout
    \/ WsTimeout

(* Steps that happen when the peer or the network answers. *)
PeerStep ==
    \/ HttpSendOk
    \/ HttpSendErr
    \/ HttpBody
    \/ HttpBodyErr
    \/ WsConnectOk
    \/ WsConnectErr
    \/ WsSendOk
    \/ WsSendErr
    \/ WsRecvText
    \/ WsRecvBadJson
    \/ WsRecvNonText
    \/ WsRecvError
    \/ WsStreamClosed
    \/ WsClose

Next == ProgramStep \/ TimerStep \/ PeerStep

Spec == Init /\ [][Next]_vars


(* The tokio runtime runs a ready task and fires an armed timer; nothing   *)
(* makes a peer answer.                                                    *)
FairSpec == Spec /\ WF_vars(ProgramStep) /\ WF_vars(TimerStep)

(* ----------------------------------------------------------------------- *)
(* Properties of the orchestrator and the request paths                    *)
(* ----------------------------------------------------------------------- *)
(* Every outcome recorded so far, in the order of recording. *)
AllRecorded == all_results \o method_results

(* test_method was invoked and its result is not yet matched. *)
InFlight ==
    pc \in {"http_send", "http_body", "ws_connect", "ws_send", "ws_wait", "ws_close", "match"}

Returned == pc \in {"returned", "done"}

IsDispatcherError(r) == Len(r.error) = 2 /\ r.error[1] = "test failed: "

(* The outcomes recorded for a chain, in order. *)
RECURSIVE ResultsOfChain(_, _)
ResultsOfChain(results, name) ==
    IF results = << >> THEN << >>
    ELSE IF Head(results).chain = name
         THEN <<Head(results)>> \o ResultsOfChain(Tail(results), name)
         ELSE ResultsOfChain(Tail(results), name)

C1_CountInv ==
    /\ Len(AllRecorded) + (IF InFlight THEN 1 ELSE 0) = calls
    /\ ret # "Err"
    /\ Returned => ret = "Ok"

C1_MatchStep ==
    pc = "match" =>
        /\ Len(method_results') = Len(method_results) + 1
        /\ SubSeq(method_results', 1, Len(method_results)) = method_results
        /\ all_results' = all_results
        /\ outcome.kind = "Err" =>
             LET r == method_results'[Len(method_results')] IN
             /\ r.success = FALSE
             /\ r.error = <<"test failed: ", outcome.e>>
             /\ r.chain = Chain.name /\ r.method = Method

(* C1: every invocation of test_method, Ok or Err, appends exactly one     *)
(* RpcResult; a dispatcher error is recorded with success = false and its  *)
(* text, never propagated, so test_all_methods returns Ok.                 *)
C1_EveryAttemptRecorded == [](C1_CountInv) /\ [][C1_MatchStep]_vars

(* A run that returned Ok and holds a recorded dispatcher error next to a  *)
(* recorded success.                                                       *)
C1_Witness ==
    /\ Returned /\ ret = "Ok"
    /\ \E k \in DOMAIN all_results : IsDispatcherError(all_results[k])
    /\ \E k \in DOMAIN all_results : all_results[k].success

WsChainNames == {chains[k].name : k \in {j \in DOMAIN chains : chains[j].connection_type = WebSocket}}

(* C2 as stated: on a WebSocket chain whose first recorded outcome has     *)
(* success = false, that outcome is the only one recorded for the chain.   *)
C2_Original ==
    Returned =>
        \A name \in WsChainNames :
            LET rs == ResultsOfChain(all_results, name) IN
            (rs # << >> /\ ~rs[1].success) => Len(rs) = 1

(* C2 amended: on a WebSocket chain whose first attempt of the first       *)
(* method ended in a dispatcher error (test_method returned Err), that     *)
(* outcome stays the only one recorded for the chain and no further        *)
(* attempt is issued to it; when the first attempt instead returned a      *)
(* JSON-RPC error response, all count_per_method attempts of the first     *)
(* method are recorded.                                                    *)
C2_FirstErrorCutsChain ==
    \A name \in WsChainNames :
        LET rs == ResultsOfChain(AllRecorded, name) IN
        /\ (rs # << >> /\ IsDispatcherError(rs[1])) =>
              /\ Len(rs) = 1
              /\ (chain_idx <= Len(chains) /\ Chain.name = name) => pc = "method_end"
        /\ (Returned /\ rs # << >> /\ ~IsDispatcherError(rs[1])) =>
              Len(ResultsOfChain(SelectSeq(all_results, LAMBDA r : r.method = methods[1]), name))
                 = count_per_method

(* A finished run over a WebSocket chain with two methods and two          *)
(* repetitions whose first attempt ended in a dispatcher error.            *)
C2_Witness ==
    /\ Returned
    /\ Len(methods) >= 2 /\ count_per_method >= 2
    /\ chains[1].connection_type = WebSocket
    /\ LET rs == ResultsOfChain(all_results, chains[1].name) IN
         Len(rs) = 1 /\ IsDispatcherError(rs[1])

RECURSIVE SumOver(_, _)
SumOver(f, S) ==
    IF S = {} THEN 0
    ELSE LET x == CHOOSE y \in S : TRUE IN f[x] + SumOver(f, S \ {x})

Connected(r) == r.error # <<"test failed: ", ErrWsConnect>>

(* Requests to address a, recorded or in flight, whose handshake succeeded. *)
HandshakesDone(a) ==
    Cardinality({k \in DOMAIN AllRecorded :
                    AllRecorded[k].endpoint = a /\ a.scheme \in {"ws", "wss"}
                    /\ Connected(AllRecorded[k])})
    + (IF /\ chain_idx <= Len(chains)
          /\ Chain.rpc_url = a
          /\ \/ pc \in {"ws_send", "ws_wait", "ws_close"}
             \/ pc = "match" /\ Chain.connection_type = WebSocket
                /\ ~(outcome.kind = "Err" /\ outcome.e = ErrWsConnect)
       THEN 1 ELSE 0)

C4_AllClosedOnReturn ==
    Returned => (ws_live = 0 /\ close_frames = SumOver(connects, Addresses))

(* C5: a run always terminates, even when a peer stops answering. *)
C5_RunTerminates == <>(pc = "done")


(* ----------------------------------------------------------------------- *)
(* calculate_stats on any list of results                                  *)
(* ----------------------------------------------------------------------- *)
(* The groups a list can hold: two methods on one chain and one method on  *)
(* another.                                                                *)
StatsTargets ==
    { <<ChainNew("ETH-HTTP", Url("https", "eth.example")), Catalog[1]>>,
      <<ChainNew("ETH-HTTP", Url("https", "eth.example")), Catalog[2]>>,
      <<ChainNew("BSC-WS", Url("wss", "node.example")), Catalog[1]>> }

(* Results as test_all_methods records them: a success with its latency, a *)
(* JSON-RPC error response with its latency, a dispatcher error.           *)
StatsResults ==
    UNION {
        {RpcResult(t[1].name, t[1].rpc_url, t[2], TRUE, l, None) : l \in Latencies}
        \cup {RpcResult(t[1].name, t[1].rpc_url, t[2], FALSE, 30, Some("execution reverted"))}
        \cup {ErrResult(t[1], t[2],
                        IF t[1].connection_type = Http THEN ErrHttpSend ELSE ErrWsTimeout)}
      : t \in StatsTargets }

StatsInit ==
    /\ chains = << >>
    /\ methods = << >>
    /\ count_per_method = 1
    /\ pc = "stats_input"
    /\ chain_idx = 1
    /\ i = 1
    /\ attempt = 0
    /\ method_results = << >>
    /\ error_occurred = FALSE
    /\ all_results = << >>
    /\ ret = "Ok"
    /\ latency = 0
    /\ outcome = NoOutcome
    /\ ws_live = 0
    /\ connects = [a \in Addresses |-> 0]
    /\ close_frames = 0
    /\ calls = 0
    /\ throttled = TRUE
    /\ stats = << >>
    /\ tasks = << >>

(* One more result in the list handed to calculate_stats. *)
StatsInput ==
    /\ pc = "stats_input"
    /\ Len(all_results) < MaxResults
    /\ \E r \in StatsResults : all_results' = Append(all_results, r)
    /\ UNCHANGED <<inputs, pc, chain_idx, i, attempt, method_results, error_occurred,
                   ret, latency, outcome, wsVars, calls, throttled, stats, tasks>>

(* stats::calculate_stats(&results) *)
StatsCalculate ==
    /\ pc = "stats_input"
    /\ stats' \in calculate_stats(all_results)
    /\ pc' = "stats_done"
    /\ UNCHANGED <<inputs, loopVars, latency, outcome, wsVars, calls, throttled, tasks>>

StatsNext == StatsInput \/ StatsCalculate

StatsSpec == StatsInit /\ [][StatsNext]_vars

(* calculate_stats has returned: stats is its result for all_results. *)
StatsReady == pc \in {"stats_done", "done"}

(* The positions of the input that belong to a group, and those of its     *)
(* successes.                                                              *)
CallsOf(st) ==
    {j \in DOMAIN all_results :
        /\ all_results[j].chain = st.chain
        /\ all_results[j].endpoint = st.endpoint
        /\ all_results[j].method = st.method}
SuccessesOf(st) == {j \in CallsOf(st) : all_results[j].success}

FracLeq(x, y) == x.num * y.den <= y.num * x.den
Zero == [num |-> 0, den |-> 1]
Whole(n) == [num |-> n, den |-> 1]

(* C6: every MethodStats has success_count <= call_count, call_count >= 1  *)
(* and success_rate = success_count / call_count, a value in [0, 1]; the   *)
(* counts are those of the group in the input.                             *)
C6_SuccessRate ==
    StatsReady =>
        \A k \in DOMAIN stats :
            LET st == stats[k] IN
            /\ st.call_count = Cardinality(CallsOf(st))
            /\ st.success_count = Cardinality(SuccessesOf(st))
            /\ st.success_count <= st.call_count
            /\ st.call_count >= 1
            /\ st.success_rate.den > 0
            /\ st.success_rate.num * st.call_count = st.success_count * st.success_rate.den
            /\ 0 <= st.success_rate.num /\ st.success_rate.num <= st.success_rate.den

(* A group with some but not all attempts successful, and a group with     *)
(* none.                                                                   *)
C6_Witness ==
    /\ StatsReady
    /\ \E k \in DOMAIN stats :
         stats[k].success_count >= 1 /\ stats[k].success_count < stats[k].call_count
    /\ \E k \in DOMAIN stats : stats[k].success_count = 0

RECURSIVE SumLatency(_)
SumLatency(S) ==
    IF S = {} THEN 0
    ELSE LET j == CHOOSE x \in S : TRUE IN all_results[j].latency_ms + SumLatency(S \ {j})

LatencyFields(st) ==
    <<st.min_latency, st.max_latency, st.avg_latency, st.median_latency, st.p95_latency>>

(* The input with the latency of every failed attempt set to zero. *)
FailedLatenciesZeroed ==
    [j \in DOMAIN all_results |->
        IF all_results[j].success THEN all_results[j]
        ELSE [all_results[j] EXCEPT !.latency_ms = 0]]

(* C7: the five latency fields of a group come from the latencies of its   *)
(* successful attempts alone: min and max are the least and the greatest   *)
(* of them, avg their mean, median and p95 lie between min and max, none   *)
(* changes when the latency of a failed attempt changes, and all five are  *)
(* 0 when the group has no successful attempt.                             *)
C7_LatencyOfSuccessesOnly ==
    StatsReady =>
        \A k \in DOMAIN stats :
            LET st == stats[k]
                ok == SuccessesOf(st)
                lat == {all_results[j].latency_ms : j \in ok}
            IN  /\ ok = {} => LatencyFields(st) = <<Zero, Zero, Zero, Zero, Zero>>
                /\ ok # {} =>
                     /\ st.min_latency = Whole(CHOOSE x \in lat : \A y \in lat : x <= y)
                     /\ st.max_latency = Whole(CHOOSE x \in lat : \A y \in lat : x >= y)
                     /\ st.avg_latency.num * Cardinality(ok) = st.avg_latency.den * SumLatency(ok)
                     /\ FracLeq(st.min_latency, st.median_latency)
                     /\ FracLeq(st.median_latency, st.max_latency)
                     /\ \E x \in lat : st.p95_latency = Whole(x)
                /\ LatencyFields(st) =
                     LatencyFields(MethodStats(KeyOf(st),
                                               GroupOf(FailedLatenciesZeroed, KeyOf(st))))

(* A group whose failed attempt took longer than any of its successes. *)
C7_Witness ==
    /\ StatsReady
    /\ \E k \in DOMAIN stats :
         /\ stats[k].success_count >= 1
         /\ \E j \in CallsOf(stats[k]) \ SuccessesOf(stats[k]) :
               FracLess(stats[k].max_latency, Whole(all_results[j].latency_ms))

RECURSIVE SumCallCount(_)
SumCallCount(sts) == IF sts = << >> THEN 0 ELSE Head(sts).call_count + SumCallCount(Tail(sts))

(* C8: the output holds exactly one MethodStats for every (chain,          *)
(* endpoint, method) of the input, groups without a success included, and  *)
(* the call counts add up to the number of results.                        *)
C8_OneGroupPerKey ==
    StatsReady =>
        /\ {KeyOf(stats[k]) : k \in DOMAIN stats} = {KeyOf(all_results[j]) : j \in DOMAIN all_results}
        /\ \A a, b \in DOMAIN stats : KeyOf(stats[a]) = KeyOf(stats[b]) => a = b
        /\ SumCallCount(stats) = Len(all_results)

(* An output with a group without any success next to a group with one. *)
C8_Witness ==
    /\ StatsReady
    /\ \E a, b \in DOMAIN stats : stats[a].success_count = 0 /\ stats[b].success_count > 0

(* C9: the output is ordered by chain name ascending; two adjacent entries *)
(* of one chain have the higher success rate first, or equal rates and the *)
(* average latency of the first not larger.                                *)
C9_Ordered ==
    StatsReady =>
        \A k \in DOMAIN stats :
            k + 1 \in DOMAIN stats =>
                LET a == stats[k]
                    b == stats[k + 1]
                IN  /\ StrCmp(a.chain, b.chain) \in {"Less", "Equal"}
                    /\ a.chain = b.chain =>
                         \/ FracLess(b.success_rate, a.success_rate)
                         \/ /\ a.success_rate = b.success_rate
                            /\ FracLeq(a.avg_latency, b.avg_latency)

(* On one chain a group with rate 1.0 and the larger average latency       *)
(* stands right before a group with rate 0.5.                              *)
C9_Witness ==
    /\ StatsReady
    /\ \E k \in DOMAIN stats :
         /\ k + 1 \in DOMAIN stats
         /\ stats[k].chain = stats[k + 1].chain
         /\ stats[k].success_rate = [num |-> 1, den |-> 1]
         /\ stats[k + 1].success_rate = [num |-> 1, den |-> 2]
         /\ FracLess(stats[k + 1].avg_latency, stats[k].avg_latency)

(* The latencies of a group's successes, in the order of recording. *)
RECURSIVE RecordedLatencies(_, _)
RecordedLatencies(st, j) ==
    IF j > Len(all_results) THEN << >>
    ELSE (IF j \in SuccessesOf(st) THEN <<all_results[j].latency_ms>> ELSE << >>)
         \o RecordedLatencies(st, j + 1)

Occurrences(s, x) == Cardinality({k \in DOMAIN s : s[k] = x})

(* An ascending arrangement of the values of s. *)
Ascending(s) ==
    CHOOSE t \in [DOMAIN s -> {s[k] : k \in DOMAIN s}] :
        /\ \A a, b \in DOMAIN t : a <= b => t[a] <= t[b]
        /\ \A k \in DOMAIN s : Occurrences(t, s[k]) = Occurrences(s, s[k])

(* C10: with n >= 1 successes the median is the middle value of the        *)
(* ascending latencies when n is odd and the mean of the two middle values *)
(* when n is even, in whatever order the attempts were recorded.           *)
C10_Median ==
    StatsReady =>
        \A k \in DOMAIN stats :
            LET st == stats[k]
                recorded == RecordedLatencies(st, 1)
                n == Len(recorded)
            IN  n >= 1 =>
                  LET asc == Ascending(recorded) IN
                  /\ n = st.success_count
                  /\ n % 2 = 1 => st.median_latency = Whole(asc[(n + 1) \div 2])
                  /\ n % 2 = 0 =>
                       /\ st.median_latency.num * 2
                            = (asc[n \div 2] + asc[(n \div 2) + 1]) * st.median_latency.den
                       /\ st.median_latency.den \in {1, 2}

(* Latencies recorded as 30, 10, 20 give the median 20. *)
C10_Witness ==
    /\ StatsReady
    /\ \E k \in DOMAIN stats :
         /\ RecordedLatencies(stats[k], 1) = <<30, 10, 20>>
         /\ stats[k].median_latency = Whole(20)

(* Latencies recorded as 20, 10 give the median 15. *)
C10_WitnessEven ==
    /\ StatsReady
    /\ \E k \in DOMAIN stats :
         /\ RecordedLatencies(stats[k], 1) = <<20, 10>>
         /\ stats[k].median_latency = [num |-> 15, den |-> 1]

(* ----------------------------------------------------------------------- *)
(* calculate_stats on one group of up to MaxGroup successes                *)
(* ----------------------------------------------------------------------- *)
(* n successes of one (chain, method) with the latencies 1 .. n, recorded  *)
(* in ascending order rotated by r places, or in the reverse of that       *)
(* order.                                                                  *)
GroupInput(n, r, descending) ==
    LET t == CHOOSE x \in StatsTargets : x[1].connection_type = Http /\ x[2] = Catalog[1]
        at(k) == ((k - 1 + r) % n) + 1
    IN  [k \in 1..n |->
            RpcResult(t[1].name, t[1].rpc_url, t[2], TRUE,
                      IF descending THEN n + 1 - at(k) ELSE at(k), None)]

(* A dispatcher error recorded for the same (chain, method). *)
GroupFailure ==
    LET t == CHOOSE x \in StatsTargets : x[1].connection_type = Http /\ x[2] = Catalog[1]
    IN  ErrResult(t[1], t[2], ErrHttpSend)

GroupInit ==
    /\ chains = << >>
    /\ methods = << >>
    /\ count_per_method = 1
    /\ pc = "stats_input"
    /\ chain_idx = 1
    /\ i = 1
    /\ attempt = 0
    /\ method_results = << >>
    /\ error_occurred = FALSE
    /\ \E n \in 1..MaxGroup, r \in 0..(MaxGroup - 1), descending, failed \in BOOLEAN :
          /\ r < n
          /\ all_results = (IF failed THEN <<GroupFailure>> ELSE << >>)
                             \o GroupInput(n, r, descending)
    /\ ret = "Ok"
    /\ latency = 0
    /\ outcome = NoOutcome
    /\ ws_live = 0
    /\ connects = [a \in Addresses |-> 0]
    /\ close_frames = 0
    /\ calls = 0
    /\ throttled = TRUE
    /\ stats = << >>
    /\ tasks = << >>

GroupSpec == GroupInit /\ [][StatsCalculate]_vars

(* C11: with n >= 1 successes p95_latency is the value at index            *)
(* floor(n * 0.95) of the ascending latencies, the last index n - 1 taking *)
(* its place should it fall outside 0 .. n - 1; for n = 10 that is the     *)
(* last (largest) value and for n = 1 the single latency.  "The value at   *)
(* index x of the ascending latencies" is the value v of the group with at *)
(* most x latencies below it and more than x latencies not above it.       *)
C11_P95 ==
    StatsReady =>
        \A k \in DOMAIN stats :
            LET st == stats[k]
                ok == SuccessesOf(st)
                n == Cardinality(ok)
                floor == (n * 95) \div 100
                index == IF floor > n - 1 THEN n - 1 ELSE floor
                below(v) == Cardinality({j \in ok : all_results[j].latency_ms < v})
                upto(v) == Cardinality({j \in ok : all_results[j].latency_ms <= v})
            IN  n >= 1 =>
                  /\ index \in 0..(n - 1)
                  /\ \E j \in ok :
                        /\ st.p95_latency = Whole(all_results[j].latency_ms)
                        /\ below(all_results[j].latency_ms) <= index
                        /\ upto(all_results[j].latency_ms) > index
                  /\ n = 10 => st.p95_latency = st.max_latency
                  /\ n = 1 => \A j \in ok : st.p95_latency = Whole(all_results[j].latency_ms)

(* Ten successes recorded out of order, the largest latency first: p95 is  *)
(* the tenth of the ascending values.                                      *)
C11_Witness ==
    /\ StatsReady
    /\ \E k \in DOMAIN stats :
         /\ stats[k].success_count = 10
         /\ RecordedLatencies(stats[k], 1)[1] = 10
         /\ stats[k].p95_latency = Whole(10)

(* Twenty-one successes: p95 is the twentieth of the ascending values, not *)
(* the largest.                                                            *)
C11_WitnessBelowMax ==
    /\ StatsReady
    /\ \E k \in DOMAIN stats :
         /\ stats[k].success_count = 21
         /\ stats[k].p95_latency = Whole(20)
         /\ stats[k].max_latency = Whole(21)

(* A single success. *)
C11_WitnessOne ==
    /\ StatsReady
    /\ \E k \in DOMAIN stats :
         /\ stats[k].success_count = 1
         /\ stats[k].call_count = 2
         /\ stats[k].p95_latency = stats[k].min_latency

(* ----------------------------------------------------------------------- *)
(* Order of the recorded outcomes                                          *)
(* ----------------------------------------------------------------------- *)
ChainIndex(name) == CHOOSE k \in DOMAIN chains : chains[k].name = name
MethodIndex(name) == CHOOSE k \in DOMAIN methods : methods[k] = name

(* Position a before position b, or at it, in the order of issuance:       *)
(* endpoint first, then method.                                            *)
IssuedNoLater(a, b) ==
    \/ ChainIndex(a.chain) < ChainIndex(b.chain)
    \/ /\ ChainIndex(a.chain) = ChainIndex(b.chain)
       /\ MethodIndex(a.method) <= MethodIndex(b.method)

C12_OrderInv ==
    \A a, b \in DOMAIN AllRecorded :
        a < b => IssuedNoLater(AllRecorded[a], AllRecorded[b])

(* A step that records an outcome appends it, as outcome number attempt + 1 *)
(* of the method under test on the chain under test.                       *)
C12_RecordStep ==
    AllRecorded' # AllRecorded =>
        /\ Len(AllRecorded') = Len(AllRecorded) + 1
        /\ SubSeq(AllRecorded', 1, Len(AllRecorded)) = AllRecorded
        /\ Len(method_results') = attempt + 1
        /\ method_results'[attempt + 1].chain = Chain.name
        /\ method_results'[attempt + 1].method = Method

(* A step that issues an attempt finds the outcome of every earlier one    *)
(* recorded.                                                               *)
C12_IssueStep ==
    calls' # calls => calls' = calls + 1 /\ Len(AllRecorded) = calls

(* C12: in the sequential orchestrator the recorded outcomes stand in the  *)
(* order of issuance: those of an endpoint before those of every later     *)
(* endpoint, within an endpoint those of a method before those of every    *)
(* later method, within a method in the order of the attempt index; and no *)
(* attempt is issued before the outcome of the one before it is recorded.  *)
C12_IssuanceOrder ==
    [](C12_OrderInv) /\ [][C12_RecordStep /\ C12_IssueStep]_vars

(* A finished run over two endpoints and two methods, with a failure among *)
(* the four outcomes.                                                      *)
C12_Witness ==
    /\ Returned
    /\ Len(chains) = 2
    /\ Len(methods) = 2
    /\ Len(all_results) = 4
    /\ \E k \in DOMAIN all_results : ~all_results[k].success

(* ----------------------------------------------------------------------- *)
(* rpc.rs: test_all_methods_concurrent                                     *)
(* ----------------------------------------------------------------------- *)
(* What test_method can return for a chain of the given connection type:   *)
(* the terminal outcomes of send_http_rpc_request / send_ws_rpc_request.   *)
(* The concurrent orchestrator is modelled with one step per await of its  *)
(* futures, so a request is one step that ends in one of these.            *)
DispatchOutcomes(connection_type) ==
    {ClassifyBody(body, l) : body \in Bodies, l \in Elapsed}
    \cup (IF connection_type = Http
            THEN {ErrOutcome(ErrHttpSend), ErrOutcome(ErrHttpParse)}
            ELSE {ErrOutcome(ErrWsConnect), ErrOutcome(ErrWsSend), ErrOutcome(ErrWsResponse),
                  ErrOutcome(ErrWsClosed), ErrOutcome(ErrWsTimeout), ErrOutcome(ErrWsNonText),
                  ErrOutcome(ErrWsJson)})

(* The outcomes the peers of a concurrent run produce: a result, a         *)
(* JSON-RPC error with its message, and of the dispatcher errors one per   *)
(* transport.                                                              *)
ConcOutcomes(connection_type) ==
    {o \in DispatchOutcomes(connection_type) :
        \/ o.kind = "Ok" /\ (o.success \/ o.error # None)
        \/ o.kind = "Err" /\ o.e \in {ErrHttpSend, ErrWsTimeout}}

(* One future of join_all: where it is suspended, the iterations of its    *)
(* loop that are over, its method_results, and its place in the order of   *)
(* completion (0 while it runs).                                           *)
NewTask == [state |-> "request", n |-> 0, method_results |-> << >>, rank |-> 0]

TasksDone == {m \in DOMAIN tasks : tasks[m].state = "done"}

(* The results of the futures as join_all returns them: in the order of    *)
(* the futures, that of methods.                                           *)
RECURSIVE JoinedResults(_, _)
JoinedResults(ts, m) ==
    IF m > Len(ts) THEN << >> ELSE ts[m].method_results \o JoinedResults(ts, m + 1)

(* TaskLoopEnds with the range 0..=count_per_method. *)
TaskLoopEnds_Inclusive(n) == n > count_per_method

(* for _ in 0..count_per_method: the loop is over after n iterations *)
TaskLoopEnds(n) == n >= count_per_method

ConcInit ==
    /\ chains \in ChainLists
    /\ \E m \in 1..MaxMethods : methods = SubSeq(Catalog, 1, m)
    /\ count_per_method \in 1..MaxCount
    /\ Len(chains) * Len(methods) * count_per_method <= MaxAttempts
    /\ pc = "conc_chains"
    /\ chain_idx = 1
    /\ i = 1
    /\ attempt = 0
    /\ method_results = << >>
    /\ error_occurred = FALSE
    /\ all_results = << >>
    /\ ret = "none"
    /\ latency = 0
    /\ outcome = NoOutcome
    /\ ws_live = 0
    /\ connects = [a \in Addresses |-> 0]
    /\ close_frames = 0
    /\ calls = 0
    /\ throttled = TRUE
    /\ stats = << >>
    /\ tasks = << >>

(* for chain in chains: one future per method; join_all polls each of them *)
(* in turn, and each runs up to the await of its first test_method.        *)
ConcBeginChain ==
    /\ pc = "conc_chains"
    /\ chain_idx <= Len(chains)
    /\ tasks' = [m \in DOMAIN methods |-> NewTask]
    /\ calls' = calls + Len(methods)
    /\ pc' = "conc_join"
    /\ UNCHANGED <<inputs, loopVars, latency, outcome, wsVars, throttled, stats>>

(* The test_method a future awaits returns: the match pushes one result,   *)
(* and the future goes to sleep for 100 ms.                                *)
TaskComplete(m) ==
    /\ pc = "conc_join"
    /\ tasks[m].state = "request"
    /\ \E o \in ConcOutcomes(Chain.connection_type) :
         tasks' = [tasks EXCEPT ![m] =
                     [@ EXCEPT !.state = "sleep",
                               !.method_results =
                                   Append(@, IF o.kind = "Ok"
                                               THEN OkResult(Chain, methods[m], o)
                                               ELSE ErrResult(Chain, methods[m], o.e))]]
    /\ UNCHANGED <<inputs, loopVars, pc, latency, outcome, wsVars, calls, throttled, stats>>

(* The sleep of a future is over: the next iteration awaits test_method,   *)
(* or the loop is over and the future returns (method.name, method_results) *)
TaskWake(m) ==
    /\ pc = "conc_join"
    /\ tasks[m].state = "sleep"
    /\ IF TaskLoopEnds(tasks[m].n + 1)
         THEN /\ tasks' = [tasks EXCEPT ![m] =
                             [@ EXCEPT !.state = "done", !.n = @ + 1,
                                       !.rank = Cardinality(TasksDone) + 1]]
              /\ calls' = calls
         ELSE /\ tasks' = [tasks EXCEPT ![m] = [@ EXCEPT !.state = "request", !.n = @ + 1]]
              /\ calls' = calls + 1
    /\ UNCHANGED <<inputs, loopVars, pc, latency, outcome, wsVars, throttled, stats>>

(* join_all is ready: all_results.extend(method_results) for each future   *)
(* in turn, then the next chain.                                           *)
ConcJoin ==
    /\ pc = "conc_join"
    /\ TasksDone = DOMAIN tasks
    /\ all_results' = all_results \o JoinedResults(tasks, 1)
    /\ chain_idx' = chain_idx + 1
    /\ pc' = "conc_chains"
    /\ UNCHANGED <<inputs, i, attempt, method_results, error_occurred, ret, latency,
                   outcome, wsVars, calls, throttled, stats, tasks>>

(* Ok(all_results) *)
ConcReturn ==
    /\ pc = "conc_chains"
    /\ chain_idx > Len(chains)
    /\ ret' = "Ok"
    /\ pc' = "conc_returned"
    /\ UNCHANGED <<inputs, chain_idx, i, attempt, method_results, error_occurred,
                   all_results, latency, outcome, wsVars, calls, throttled, stats, tasks>>

(* stats::calculate_stats on what the concurrent orchestrator returned *)
ConcCalculateStats ==
    /\ pc = "conc_returned"
    /\ stats' \in calculate_stats(all_results)
    /\ pc' = "done"
    /\ UNCHANGED <<inputs, loopVars, latency, outcome, wsVars, calls, throttled, tasks>>

ConcNext ==
    \/ ConcBeginChain
    \/ \E m \in DOMAIN tasks : TaskComplete(m)
    \/ \E m \in DOMAIN tasks : TaskWake(m)
    \/ ConcJoin
    \/ ConcReturn
    \/ ConcCalculateStats

ConcSpec == ConcInit /\ [][ConcNext]_vars

(* test_all_methods_concurrent has returned. *)
ConcReturned == pc \in {"conc_returned", "done"}

(* The results recorded for one (endpoint, method) pair. *)
OutcomesOf(results, c, m) ==
    {k \in DOMAIN results :
        /\ results[k].chain = chains[c].name
        /\ results[k].endpoint = chains[c].rpc_url
        /\ results[k].method = methods[m]}

(* C13: in test_all_methods_concurrent, however the futures of an endpoint *)
(* interleave, every (endpoint, method) pair ends with exactly             *)
(* count_per_method recorded outcomes; the endpoints are processed one     *)
(* after another (what the futures hold belongs to the endpoint under      *)
(* test, what was collected to the endpoints before it, and the collected  *)
(* results stand in the order of endpoints and methods whatever the order  *)
(* of completion); and the statistics computed from the results satisfy    *)
(* the aggregation contract of the sequential mode.                        *)
C13_ConcurrentCounts ==
    /\ ConcReturned =>
         /\ \A c \in DOMAIN chains, m \in DOMAIN methods :
               Cardinality(OutcomesOf(all_results, c, m)) = count_per_method
         /\ \A a, b \in DOMAIN all_results :
               a < b => IssuedNoLater(all_results[a], all_results[b])
    /\ pc = "conc_join" =>
         /\ \A m \in DOMAIN tasks :
               /\ Len(tasks[m].method_results) <= count_per_method
               /\ \A k \in DOMAIN tasks[m].method_results :
                     /\ tasks[m].method_results[k].chain = Chain.name
                     /\ tasks[m].method_results[k].method = methods[m]
         /\ \A k \in DOMAIN all_results : ChainIndex(all_results[k].chain) < chain_idx
    /\ pc = "done" =>
         /\ C6_SuccessRate
         /\ C7_LatencyOfSuccessesOnly
         /\ C8_OneGroupPerKey
         /\ C9_Ordered
         /\ C10_Median
         /\ C11_P95

(* A finished concurrent run of two methods, two attempts each, in which   *)
(* the future of the second method completed before that of the first, and *)
(* with successes and failures among the outcomes.                         *)
C13_Witness ==
    /\ pc = "done"
    /\ Len(methods) = 2
    /\ count_per_method = 2
    /\ tasks[2].rank = 1
    /\ tasks[1].rank = 2
    /\ \E k \in DOMAIN all_results : ~all_results[k].success
    /\ \E k \in DOMAIN stats : stats[k].success_count = 2

(* ----------------------------------------------------------------------- *)
(* Skipping the remaining methods of an endpoint                           *)
(* ----------------------------------------------------------------------- *)
(* The methods of the list with a recorded outcome for endpoint c. *)
MethodsTested(c) == {m \in DOMAIN methods : OutcomesOf(all_results, c, m) # {}}

(* No attempt of the first method against endpoint c succeeded. *)
FirstMethodFailed(c) ==
    \A k \in OutcomesOf(all_results, c, 1) : ~all_results[k].success

(* C14: the remaining methods of an endpoint are skipped exactly when the  *)
(* endpoint is a WebSocket one and its first method ended with no          *)
(* successful attempt; no success on a later method, or on an HTTP         *)
(* endpoint, skips nothing; and every endpoint of the list is tested by    *)
(* this rule, whatever happened to the endpoints before it.                *)
C14_SkipRule ==
    Returned =>
        \A c \in DOMAIN chains :
            IF chains[c].connection_type = WebSocket /\ FirstMethodFailed(c)
              THEN MethodsTested(c) = {1}
              ELSE MethodsTested(c) = DOMAIN methods

(* The first of two endpoints was abandoned after its first method, the    *)
(* second was tested with both methods.                                    *)
C14_Witness ==
    /\ Returned
    /\ Len(chains) = 2
    /\ Len(methods) = 2
    /\ MethodsTested(1) = {1}
    /\ MethodsTested(2) = {1, 2}

(* A WebSocket endpoint whose second method had no success and whose third *)
(* method was tested all the same.                                         *)
C14_WitnessLaterMethod ==
    /\ Returned
    /\ Len(methods) = 3
    /\ chains[1].connection_type = WebSocket
    /\ \A k \in OutcomesOf(all_results, 1, 2) : ~all_results[k].success
    /\ MethodsTested(1) = {1, 2, 3}

(* An HTTP endpoint whose first method had no success. *)
C14_WitnessHttp ==
    /\ Returned
    /\ Len(methods) = 2
    /\ chains[1].connection_type = Http
    /\ FirstMethodFailed(1)
    /\ MethodsTested(1) = {1, 2}

(* ----------------------------------------------------------------------- *)
(* Cutting the repetitions of a method short                               *)
(* ----------------------------------------------------------------------- *)
(* C15: the repetitions of a method are cut short only when the first      *)
(* attempt of the first method against a WebSocket endpoint fails: a       *)
(* method with fewer than count_per_method outcomes is the first method of *)
(* a WebSocket endpoint and its one outcome is a failure; every later      *)
(* method tested on a WebSocket endpoint has all count_per_method          *)
(* outcomes, even when its first attempt fails.                            *)
C15_OnlyFirstMethodCut ==
    Returned =>
        \A c \in DOMAIN chains : \A m \in MethodsTested(c) :
            LET n == Cardinality(OutcomesOf(all_results, c, m)) IN
            /\ n < count_per_method =>
                 /\ chains[c].connection_type = WebSocket
                 /\ m = 1
                 /\ n = 1
                 /\ \A k \in OutcomesOf(all_results, c, m) : ~all_results[k].success
            /\ (chains[c].connection_type = WebSocket /\ m > 1) => n = count_per_method

(* ----------------------------------------------------------------------- *)
(* The outcomes of one WebSocket request                                   *)
(* ----------------------------------------------------------------------- *)
(* send_ws_rpc_request has returned to the match of the orchestrator. *)
WsReturned == pc = "match" /\ Chain.connection_type = WebSocket

(* The outcome is a parsed JSON-RPC response, a success exactly when the   *)
(* body has no top-level "error".                                          *)
ParsedResponse(o) ==
    /\ o.kind = "Ok"
    /\ Len(o.body) = 1
    /\ o.success = ~o.body[1].has_error

IsErr(o, es) == o.kind = "Err" /\ o.e \in es

(* C16 as stated: a WebSocket request ends as a parsed JSON-RPC response,  *)
(* as a WebSocket error (the send failed, the stream closed, the next      *)
(* frame was not a text frame) or as a timeout, and as nothing else.       *)
(* "WebSocket error" is read widely here: a failed handshake and an error  *)
(* of the stream while reading count as such too.                          *)
C16_Original ==
    WsReturned =>
        \/ ParsedResponse(outcome)
        \/ IsErr(outcome, {ErrWsConnect, ErrWsSend, ErrWsResponse, ErrWsClosed, ErrWsNonText})
        \/ IsErr(outcome, {ErrWsTimeout})

C16_OutcomeInv ==
    WsReturned =>
        \/ ParsedResponse(outcome)
        \/ IsErr(outcome, {ErrWsConnect, ErrWsSend, ErrWsResponse, ErrWsClosed, ErrWsNonText,
                           ErrWsJson})
        \/ IsErr(outcome, {ErrWsTimeout})

(* The step that ends the wait for the response fixes the outcome; sending *)
(* the close frame does not change it.                                     *)
C16_FirstFrameStep ==
    /\ (pc = "ws_wait" /\ pc' # pc) =>
          /\ pc' \in {"ws_close", "match"}
          /\ outcome' # NoOutcome
    /\ (pc = "ws_close" /\ pc' # pc) => pc' = "match" /\ outcome' = outcome

(* C16, amended: a WebSocket request ends as a parsed JSON-RPC response    *)
(* (a success exactly when the body has no top-level "error", as on the    *)
(* HTTP path), as an error (the handshake failed, the send failed, the     *)
(* stream failed or closed, the next frame was not a text frame, or it was *)
(* a text frame that is not JSON) or as a timeout, and as nothing else;    *)
(* the first event after the send decides which.                           *)
C16_WsOutcome ==
    [](C16_OutcomeInv) /\ [][C16_FirstFrameStep]_vars

(* A WebSocket request answered by a text frame that is not JSON. *)
C16_Witness ==
    /\ WsReturned
    /\ IsErr(outcome, {ErrWsJson})

(* A WebSocket request answered by a JSON-RPC error. *)
C16_WitnessErrorBody ==
    /\ WsReturned
    /\ ParsedResponse(outcome)
    /\ ~outcome.success

(* ----------------------------------------------------------------------- *)
(* The throttle between attempts                                           *)
(* ----------------------------------------------------------------------- *)
(* The orchestrator is about to invoke test_method, and it is not the      *)
(* first invocation for the endpoint under test.                           *)
NextCallFollowsCall ==
    /\ pc = "attempts"
    /\ attempt < count_per_method
    /\ ~(i = 1 /\ attempt = 0)

(* C17: between two consecutive invocations of test_method for one         *)
(* endpoint, be they for the same method or for a method and the next one, *)
(* after a success or after a failure, one throttle sleep takes place.     *)
C17_ThrottleBetweenCalls == NextCallFollowsCall => throttled

(* ----------------------------------------------------------------------- *)
(* Number of outcomes per endpoint and method                              *)
(* ----------------------------------------------------------------------- *)
(* C18: at no time has an (endpoint, method) pair more than                *)
(* count_per_method recorded outcomes; when the run has returned, every    *)
(* method of the list has exactly count_per_method outcomes for every HTTP *)
(* endpoint, which thus contributes |methods| * count_per_method outcomes. *)
C18_OutcomeCounts ==
    /\ \A c \in DOMAIN chains, m \in DOMAIN methods :
          Cardinality(OutcomesOf(AllRecorded, c, m)) <= count_per_method
    /\ Returned =>
          \A c \in DOMAIN chains :
              chains[c].connection_type = Http =>
                  /\ \A m \in DOMAIN methods :
                        Cardinality(OutcomesOf(all_results, c, m)) = count_per_method
                  /\ Len(ResultsOfChain(all_results, chains[c].name))
                        = Len(methods) * count_per_method

(* An HTTP endpoint tested with two methods, two attempts each, whose very *)
(* first attempt ended in a dispatcher error and whose second method had   *)
(* no success.                                                             *)
C18_Witness ==
    /\ Returned
    /\ Len(chains) = 1
    /\ chains[1].connection_type = Http
    /\ Len(methods) = 2
    /\ count_per_method = 2
    /\ Len(all_results) = 4
    /\ IsDispatcherError(all_results[1])
    /\ \A k \in OutcomesOf(all_results, 1, 2) : ~all_results[k].success

=============================================================================
